---------------------------- MODULE Spec2Model ----------------------------
(***************************************************************************)
(* Microchip HCS200/HCS300 KeeLoq decoder (src/devices/hcs200.c).          *)
(*                                                                         *)
(* hcs200_callback is modelled as an operator from a bit buffer to the     *)
(* return code, the records handed to decoder_output_data, the diagnostic  *)
(* message and the rows whose bytes were read.  Two specifications use it: *)
(*   Spec     one call on a buffer drawn from a wide set of buffers;       *)
(*   SpecSeq  sequences of calls on a small set of buffers, with the       *)
(*            whole call history kept.                                     *)
(* C arrays are functions on 0..n; a C string is a sequence of one-        *)
(* character strings.                                                      *)
(***************************************************************************)
EXTENDS Integers, Sequences, FiniteSets, TLC

VARIABLES bitbuffer,   \* the buffer of the latest (or pending) call
          ret,         \* return value of the latest call, NOT_CALLED before it
          output,      \* records handed to decoder_output_data so far
          diag,        \* decoder_log message of the latest call ("" if none)
          rows_read,   \* rows whose bytes the latest call read
          calls        \* history: one entry per call

vars == <<bitbuffer, ret, output, diag, rows_read, calls>>

---------------------------------------------------------------------------
(* Bounds *)

\* largest row count of an input buffer
MaxRows == 3
\* longest call sequence of SpecSeq
MaxCalls == 3

---------------------------------------------------------------------------
(* Bit arithmetic on small non-negative ints (bytes, nibbles, flags) *)

Bit(x, k) == (x \div (2 ^ k)) % 2

RECURSIVE And(_, _)
And(x, y) == IF x = 0 \/ y = 0 THEN 0
             ELSE ((x % 2) * (y % 2)) + 2 * And(x \div 2, y \div 2)

RECURSIVE Or(_, _)
Or(x, y) == IF x = 0 THEN y
            ELSE IF y = 0 THEN x
            ELSE (IF (x % 2) + (y % 2) > 0 THEN 1 ELSE 0) + 2 * Or(x \div 2, y \div 2)

\* x << n and x >> n on small non-negative ints (no overflow in this range)
Shl(x, n) == x * (2 ^ n)
Shr(x, n) == x \div (2 ^ n)

\* reverse8: bit k of the result is bit 7-k of the argument
reverse8(x) ==
    Bit(x, 7) + 2 * Bit(x, 6) + 4 * Bit(x, 5) + 8 * Bit(x, 4)
    + 16 * Bit(x, 3) + 32 * Bit(x, 2) + 64 * Bit(x, 1) + 128 * Bit(x, 0)

---------------------------------------------------------------------------
(* 32-bit words (int, unsigned, uint32_t) as bit vectors: w[k] is bit k.   *)
(* The same vector is the unsigned value and the two's complement int.     *)

\* the word of a byte value (integer promotion of a uint8_t)
Word(x) == [k \in 0 .. 31 |-> IF k < 8 THEN Bit(x, k) ELSE 0]

\* w << n; bits shifted past bit 31 are lost
WShl(w, n) == [k \in 0 .. 31 |-> IF k >= n THEN w[k - n] ELSE 0]

\* w1 | w2
WOr(w1, w2) == [k \in 0 .. 31 |-> IF w1[k] + w2[k] > 0 THEN 1 ELSE 0]

\* hex digit j of w (j = 0 is the least significant)
Nibble(w, j) == w[4 * j] + 2 * w[4 * j + 1] + 4 * w[4 * j + 2] + 8 * w[4 * j + 3]

\* the word read as an int is negative
Negative(w) == w[31] = 1

\* the value of bits 0..30
RECURSIVE LowValue(_, _)
LowValue(w, k) == IF k > 30 THEN 0 ELSE w[k] + 2 * LowValue(w, k + 1)

---------------------------------------------------------------------------
(* snprintf(str, size, "%0wX", v) *)

HexDigit(d) == <<"0", "1", "2", "3", "4", "5", "6", "7",
                 "8", "9", "A", "B", "C", "D", "E", "F">>[d + 1]

\* the digits of w from digit j down, without leading zeros, at least one
RECURSIVE HexDigits(_, _)
HexDigits(w, j) ==
    IF j = 0 THEN <<HexDigit(Nibble(w, 0))>>
    ELSE IF Nibble(w, j) = 0 THEN HexDigits(w, j - 1)
    ELSE [i \in 1 .. j + 1 |-> HexDigit(Nibble(w, j + 1 - i))]

RECURSIVE ZeroPad(_, _)
ZeroPad(s, w) == IF Len(s) >= w THEN s ELSE ZeroPad(<<"0">> \o s, w)

\* "%0wX" into a buffer of `size` chars: at least w digits, at most size-1 kept
snprintf_X(size, w, v) ==
    LET full == ZeroPad(HexDigits(v, 7), w)
    IN  SubSeq(full, 1, IF Len(full) < size - 1 THEN Len(full) ELSE size - 1)

---------------------------------------------------------------------------
(* Return codes *)

DECODE_ABORT_LENGTH == "DECODE_ABORT_LENGTH"
DECODE_ABORT_EARLY  == "DECODE_ABORT_EARLY"
DECODE_FAIL_SANITY  == "DECODE_FAIL_SANITY"
DECODE_OK           == "1"
NOT_CALLED          == "NOT_CALLED"

---------------------------------------------------------------------------
(* hcs200_callback, line by line *)

\* variant: the two length tests joined by && instead of ||
WrongLength_and(bb) == bb.bits_per_row[0] # 12 /\ bb.bits_per_row[1] # 66

\* variant: a row count other than two is rejected as well
WrongLength_rows(bb) ==
    bb.num_rows # 2 \/ bb.bits_per_row[0] # 12 \/ bb.bits_per_row[1] # 66

\* line 57
WrongLength(bb) == bb.bits_per_row[0] # 12 \/ bb.bits_per_row[1] # 66

\* variant: byte 1 compared whole, without the 0xf0 mask
BadPreamble_nomask(b) == b[0] # 255 \/ b[1] # 240

\* line 62, b = bitbuffer->bb[0]
BadPreamble(b) == b[0] # 255 \/ And(b[1], 240) # 240

\* variant: the all-0xff test starts at byte 0
AllFF_from0(b) == b[0] = 255 /\ b[1] = 255 /\ b[2] = 255 /\ b[3] = 255 /\ b[4] = 255
                  /\ b[5] = 255 /\ b[6] = 255 /\ b[7] = 255

\* lines 71-72, b = bitbuffer->bb[1]
AllFF(b) == b[1] = 255 /\ b[2] = 255 /\ b[3] = 255 /\ b[4] = 255
            /\ b[5] = 255 /\ b[6] = 255 /\ b[7] = 255

\* variant: byte 0 as the most significant byte
encrypted_byte0_first(b) ==
    WOr(WOr(WOr(WShl(Word(reverse8(b[0])), 24), WShl(Word(reverse8(b[1])), 16)),
            WShl(Word(reverse8(b[2])), 8)), Word(reverse8(b[3])))

\* line 78 (uint32_t)
encrypted(b) ==
    WOr(WOr(WOr(WShl(Word(reverse8(b[3])), 24), WShl(Word(reverse8(b[2])), 16)),
            WShl(Word(reverse8(b[1])), 8)), Word(reverse8(b[0])))

\* variant: byte 7 reversed without the 0xf0 mask
serial_nomask(b) ==
    WOr(WOr(WOr(WShl(Word(reverse8(b[7])), 24),
                WShl(Word(reverse8(b[6])), 16)),
            WShl(Word(reverse8(b[5])), 8)), Word(reverse8(b[4])))

\* line 79 (int)
serial(b) ==
    WOr(WOr(WOr(WShl(Word(reverse8(And(b[7], 240))), 24),
                WShl(Word(reverse8(b[6])), 16)),
            WShl(Word(reverse8(b[5])), 8)), Word(reverse8(b[4])))

\* line 80
btn(b) == And(b[7], 15)

\* variant: S0 shifted by one instead of two
btn_num_shift1(n) ==
    Or(Or(Or(And(n, 8), Shl(And(n, 1), 1)), And(n, 2)), Shr(And(n, 4), 2))

\* line 81
btn_num(n) ==
    Or(Or(Or(And(n, 8), Shl(And(n, 1), 2)), And(n, 2)), Shr(And(n, 4), 2))

\* line 82
learn(b) == IF And(b[7], 15) = 15 THEN 1 ELSE 0

\* line 83
battery_low(b) == IF And(b[8], 128) = 128 THEN 1 ELSE 0

\* variant: repeat read from bit 5
repeat_bit5(b) == IF And(b[8], 32) = 32 THEN 1 ELSE 0

\* line 84
repeat(b) == IF And(b[8], 64) = 64 THEN 1 ELSE 0

\* lines 86-87
encrypted_str(b) == snprintf_X(9, 8, encrypted(b))

\* lines 88-89
serial_str(b) == snprintf_X(9, 7, serial(b))

\* lines 92-100: key, pretty key, type, value
data_make(b) ==
    << <<"model",      "",           "DATA_STRING", "Microchip-HCS200">>,
       <<"id",         "",           "DATA_STRING", serial_str(b)>>,
       <<"battery_ok", "Battery",    "DATA_INT",    IF battery_low(b) = 0 THEN 1 ELSE 0>>,
       <<"button",     "Button",     "DATA_INT",    btn_num(btn(b))>>,
       <<"learn",      "Learn mode", "DATA_INT",    learn(b)>>,
       <<"repeat",     "Repeat",     "DATA_INT",    repeat(b)>>,
       <<"encrypted",  "",           "DATA_STRING", encrypted_str(b)>> >>

\* lines 107-116
output_fields ==
    <<"model", "id", "battery_ok", "button", "learn", "repeat", "encrypted">>

\* variant: the sanity test logs but does not return
hcs200_callback_no_sanity_return(bb) ==
    IF WrongLength(bb)
    THEN [ret |-> DECODE_ABORT_LENGTH, out |-> <<>>, diag |-> "", read |-> {}]
    ELSE IF BadPreamble(bb.bb[0])
    THEN [ret |-> DECODE_ABORT_EARLY, out |-> <<>>,
          diag |-> "Preamble not found", read |-> {0}]
    ELSE [ret |-> DECODE_OK, out |-> <<data_make(bb.bb[1])>>,
          diag |-> IF AllFF(bb.bb[1]) THEN "DECODE_FAIL_SANITY data all 0xff" ELSE "",
          read |-> {0, 1}]

\* variant: a record equal to the one emitted last is not emitted again
hcs200_callback_dedup(bb) ==
    IF WrongLength(bb)
    THEN [ret |-> DECODE_ABORT_LENGTH, out |-> <<>>, diag |-> "", read |-> {}]
    ELSE IF BadPreamble(bb.bb[0])
    THEN [ret |-> DECODE_ABORT_EARLY, out |-> <<>>,
          diag |-> "Preamble not found", read |-> {0}]
    ELSE IF AllFF(bb.bb[1])
    THEN [ret |-> DECODE_FAIL_SANITY, out |-> <<>>,
          diag |-> "DECODE_FAIL_SANITY data all 0xff", read |-> {0, 1}]
    ELSE IF output # <<>> /\ output[Len(output)] = data_make(bb.bb[1])
    THEN [ret |-> DECODE_OK, out |-> <<>>, diag |-> "", read |-> {0, 1}]
    ELSE [ret |-> DECODE_OK, out |-> <<data_make(bb.bb[1])>>,
          diag |-> "", read |-> {0, 1}]

\* lines 54-105
hcs200_callback(bb) ==
    IF WrongLength(bb)
    THEN [ret |-> DECODE_ABORT_LENGTH, out |-> <<>>, diag |-> "", read |-> {}]
    ELSE IF BadPreamble(bb.bb[0])
    THEN [ret |-> DECODE_ABORT_EARLY, out |-> <<>>,
          diag |-> "Preamble not found", read |-> {0}]
    ELSE IF AllFF(bb.bb[1])
    THEN [ret |-> DECODE_FAIL_SANITY, out |-> <<>>,
          diag |-> "DECODE_FAIL_SANITY data all 0xff", read |-> {0, 1}]
    ELSE [ret |-> DECODE_OK, out |-> <<data_make(bb.bb[1])>>,
          diag |-> "", read |-> {0, 1}]

---------------------------------------------------------------------------
(* Input buffers *)

\* a C byte array from a sequence
Row(s) == [i \in 0 .. Len(s) - 1 |-> s[i + 1]]

\* row s with byte i replaced by v
With(s, i, v) == [s EXCEPT ![i] = v]

ScenarioA == Row(<<18, 52, 86, 120, 154, 188, 222, 7, 0>>)
AllOnes   == Row(<<255, 255, 255, 255, 255, 255, 255, 255, 255>>)
AllZero   == Row(<<0, 0, 0, 0, 0, 0, 0, 0, 0>>)

Preamble  == Row(<<255, 240>>)

\* a bitbuffer_t: the row count, the bit length of rows 0 and 1, their bytes
Buffer(n, l0, l1, p, d) ==
    [num_rows |-> n, bits_per_row |-> Row(<<l0, l1>>), bb |-> Row(<<p, d>>)]

\* data rows: Scenario A with one byte set to every value, and the all-0xFF
\* row with one byte set to a few values
DataRows ==
    {With(ScenarioA, i, v) : i \in 0 .. 8, v \in 0 .. 255}
    \cup {With(AllOnes, i, v) : i \in 0 .. 8,
                                v \in {0, 1, 15, 18, 127, 128, 240, 254, 255}}

\* well-shaped, well-preambled two-row buffers over all data rows
ContentBuffers == {Buffer(2, 12, 66, Preamble, d) : d \in DataRows}

PreambleRows ==
    {Row(<<p0, p1>>) : p0 \in {255, 254, 127, 0},
                       p1 \in {240, 255, 245, 224, 15, 0}}

ShapeData == {ScenarioA, AllOnes, AllZero, With(AllOnes, 4, 254)}

\* a row the buffer does not use has 0 bits
Lengths(n) ==
    {<<l0, l1>> \in {0, 1, 11, 12, 13, 66} \X {0, 12, 65, 66, 67} :
        /\ (n < 1 => l0 = 0)
        /\ (n < 2 => l1 = 0)}

\* buffers of every shape and preamble over a few data rows
ShapeBuffers ==
    UNION {{Buffer(n, l[1], l[2], p, d) :
                l \in Lengths(n), p \in PreambleRows, d \in ShapeData} :
           n \in 0 .. MaxRows}

Buffers == ContentBuffers \cup ShapeBuffers

\* the buffers of call sequences: one or two of each outcome
SeqBuffers ==
    {Buffer(2, 12, 66, Preamble, ScenarioA),
     Buffer(2, 12, 66, Preamble, With(With(ScenarioA, 7, 15), 8, 192)),
     Buffer(3, 12, 66, Preamble, ScenarioA),
     Buffer(2, 11, 66, Preamble, ScenarioA),
     Buffer(2, 12, 66, Row(<<255, 0>>), ScenarioA),
     Buffer(2, 12, 66, Preamble, AllOnes)}

---------------------------------------------------------------------------
(* One call of the decode function on buffer bb *)

Call(bb) ==
    LET r == hcs200_callback(bb)
    IN  /\ ret' = r.ret
        /\ output' = output \o r.out
        /\ diag' = r.diag
        /\ rows_read' = r.read
        /\ calls' = Append(calls, [buf |-> bb, ret |-> r.ret, out |-> r.out])

---------------------------------------------------------------------------
(* Spec: the decoder is called once on a buffer drawn from Buffers *)

Init ==
    /\ bitbuffer \in Buffers
    /\ ret = NOT_CALLED
    /\ output = <<>>
    /\ diag = ""
    /\ rows_read = {}
    /\ calls = <<>>

Decode ==
    /\ ret = NOT_CALLED
    /\ Call(bitbuffer)
    /\ UNCHANGED bitbuffer

Next == Decode

Spec == Init /\ [][Next]_vars

---------------------------------------------------------------------------
(* SpecSeq: the dispatcher hands the decoder one buffer after another *)

InitSeq ==
    /\ bitbuffer = Buffer(0, 0, 0, Row(<<0, 0>>), AllZero)
    /\ ret = NOT_CALLED
    /\ output = <<>>
    /\ diag = ""
    /\ rows_read = {}
    /\ calls = <<>>

Receive ==
    /\ Len(calls) < MaxCalls
    /\ \E buf \in SeqBuffers :
          /\ bitbuffer' = buf
          /\ Call(buf)

NextSeq == Receive

SpecSeq == InitSeq /\ [][NextSeq]_vars

---------------------------------------------------------------------------
(* Vocabulary of the properties *)

Called == ret # NOT_CALLED

\* preamble row and data row of the buffer of the latest call
pre == bitbuffer.bb[0]
dat == bitbuffer.bb[1]

ShapeOk == bitbuffer.bits_per_row[0] = 12 /\ bitbuffer.bits_per_row[1] = 66

\* bit k of a row in transmission order (bytes are packed MSB first)
RowBit(b, k) == Bit(b[k \div 8], 7 - (k % 8))

PreambleOk == \A k \in 0 .. 11 : RowBit(pre, k) = 1

\* the value of field i of a record
Value(rec, i) == rec[i][4]

\* the keys of a record, in order
Keys(rec) == [i \in 1 .. Len(rec) |-> rec[i][1]]

UpperHex == <<"0", "1", "2", "3", "4", "5", "6", "7",
              "8", "9", "A", "B", "C", "D", "E", "F">>

\* the hex digit of the four transmitted bits k..k+3, the first the lowest
DigitOfBits(b, k) ==
    UpperHex[1 + RowBit(b, k) + 2 * RowBit(b, k + 1)
               + 4 * RowBit(b, k + 2) + 8 * RowBit(b, k + 3)]

---------------------------------------------------------------------------
(* C1: whenever row 0 has not exactly 12 bits or row 1 not exactly 66, the
   call returns DECODE_ABORT_LENGTH and emits no record, whatever the bytes
   of the two rows are. *)
C1_LengthMismatch ==
    (Called /\ ~ShapeOk) =>
        /\ ret = DECODE_ABORT_LENGTH
        /\ output = <<>>

\* row 1 one bit short, with a wrong preamble and an all-0xFF data row
C1_Witness ==
    /\ Called
    /\ bitbuffer.bits_per_row[0] = 12 /\ bitbuffer.bits_per_row[1] = 65
    /\ pre[0] = 0 /\ dat = AllOnes
    /\ ret = DECODE_ABORT_LENGTH /\ output = <<>>

(* C2: with lengths 12 and 66, a row 0 whose byte 0 is not 0xFF or whose
   byte 1 has a top nibble other than 0xF gives DECODE_ABORT_EARLY and no
   record, whatever the data row holds; and replacing the low nibble of row 0
   byte 1 by any other nibble gives the same return code and records. *)
C2_PreambleMismatch ==
    Called =>
        /\ (ShapeOk /\ (pre[0] # 255 \/ pre[1] \div 16 # 15)) =>
              (ret = DECODE_ABORT_EARLY /\ output = <<>>)
        /\ \A n \in 0 .. 15 :
              LET p == With(pre, 1, (pre[1] \div 16) * 16 + n)
                  r == hcs200_callback([bitbuffer EXCEPT !.bb[0] = p])
              IN  r.ret = ret /\ r.out = output

\* a preamble wrong only in the top nibble of byte 1, over an all-0xFF data row
C2_Witness ==
    /\ Called /\ ShapeOk
    /\ pre[0] = 255 /\ pre[1] = 224 /\ dat = AllOnes
    /\ ret = DECODE_ABORT_EARLY /\ output = <<>>

(* C3: with lengths 12 and 66 and a valid preamble, the call returns
   DECODE_FAIL_SANITY exactly when data bytes 1..7 are all 0xFF, and then it
   emits no record; bytes 0 and 8 take no part. *)
C3_SanityIff ==
    (Called /\ ShapeOk /\ PreambleOk) =>
        /\ ret = DECODE_FAIL_SANITY <=> (\A i \in 1 .. 7 : dat[i] = 255)
        /\ ret = DECODE_FAIL_SANITY => output = <<>>

\* rejected although byte 0 differs from 0xFF
C3_Witness ==
    /\ Called /\ ShapeOk /\ PreambleOk
    /\ dat[0] = 18 /\ (\A i \in 1 .. 7 : dat[i] = 255)
    /\ ret = DECODE_FAIL_SANITY /\ output = <<>>

(* C4: over any sequence of calls, a call emits exactly one record when it
   returns 1 (OK) and none when it returns DECODE_ABORT_LENGTH,
   DECODE_ABORT_EARLY or DECODE_FAIL_SANITY; it returns OK exactly when the
   lengths are 12 and 66, the preamble is twelve 1-bits and data bytes 1..7
   are not all 0xFF; so the number of records emitted equals the number of OK
   results so far. *)
C4_OneRecordPerOk ==
    /\ \A i \in 1 .. Len(calls) :
          LET c == calls[i]
          IN  /\ c.ret \in {DECODE_OK, DECODE_ABORT_LENGTH,
                            DECODE_ABORT_EARLY, DECODE_FAIL_SANITY}
              /\ Len(c.out) = (IF c.ret = DECODE_OK THEN 1 ELSE 0)
              /\ c.ret = DECODE_OK <=>
                    /\ c.buf.bits_per_row[0] = 12
                    /\ c.buf.bits_per_row[1] = 66
                    /\ \A k \in 0 .. 11 : RowBit(c.buf.bb[0], k) = 1
                    /\ \E j \in 1 .. 7 : c.buf.bb[1][j] # 255
    /\ Len(output) = Cardinality({i \in 1 .. Len(calls) : calls[i].ret = DECODE_OK})

\* an accepted, a rejected and again an accepted call: two records
C4_Witness ==
    /\ Len(calls) = 3
    /\ calls[1].ret = DECODE_OK
    /\ calls[2].ret = DECODE_FAIL_SANITY
    /\ calls[3].ret = DECODE_OK
    /\ Len(output) = 2

(* C5 as stated: a buffer whose row count is not two is rejected before any
   row content is read and emits no record. *)
C5_RowCountRejected ==
    (Called /\ bitbuffer.num_rows # 2) =>
        /\ ret # DECODE_OK
        /\ output = <<>>
        /\ rows_read = {}

(* C5 amended: the row count is never read.  A buffer is rejected with
   DECODE_ABORT_LENGTH, before any row content is read and without a record,
   exactly when row 0 has not 12 bits or row 1 has not 66 bits; so a buffer
   with fewer than two rows (its unused rows have 0 bits) is rejected this
   way, and a buffer with more than two rows is treated exactly as the
   two-row buffer with the same rows 0 and 1. *)
C5_RowCountIgnored ==
    (Called /\ bitbuffer.num_rows # 2) =>
        /\ ret = DECODE_ABORT_LENGTH <=> ~ShapeOk
        /\ ret = DECODE_ABORT_LENGTH => (rows_read = {} /\ output = <<>>)
        /\ bitbuffer.num_rows < 2 => ret = DECODE_ABORT_LENGTH
        /\ LET r == hcs200_callback([bitbuffer EXCEPT !.num_rows = 2])
           IN  r.ret = ret /\ r.out = output /\ r.read = rows_read

\* a three-row buffer whose rows 0 and 1 form a valid frame is accepted
C5_Witness ==
    /\ Called /\ bitbuffer.num_rows = 3 /\ ShapeOk
    /\ ret = DECODE_OK /\ Len(output) = 1 /\ rows_read = {0, 1}

(* C6: for an accepted frame, bit k of encrypted (k = 0..31) is transmitted
   bit k of the data row, i.e. its bytes are, from the most significant,
   reversed byte 3, 2, 1, 0; the encrypted field of the record is that value
   as exactly 8 upper-case hex digits. *)
C6_Encrypted ==
    (Called /\ ret = DECODE_OK) =>
        LET e == encrypted(dat)
            str == Value(output[1], 7)
        IN  /\ \A k \in 0 .. 31 : e[k] = RowBit(dat, k)
            /\ \A j \in 0 .. 3 : \A i \in 0 .. 7 :
                  e[8 * j + i] = Bit(reverse8(dat[j]), i)
            /\ output[1][7][1] = "encrypted"
            /\ Len(str) = 8
            /\ \A j \in 1 .. 8 : str[j] = DigitOfBits(dat, 4 * (8 - j))

\* Scenario A: 12 34 56 78 gives 1E6A2C48
C6_Witness ==
    /\ Called /\ ret = DECODE_OK
    /\ dat = ScenarioA
    /\ Value(output[1], 7) = <<"1", "E", "6", "A", "2", "C", "4", "8">>

(* C7: for an accepted frame, bit k of serial (k = 0..27) is transmitted bit
   32+k of the data row (bytes from the most significant: reversed top nibble
   of byte 7, reversed byte 6, 5, 4); the low nibble of byte 7 never changes
   serial; serial is non-negative and below 2^28, and the id field is exactly
   7 hex digits. *)
C7_Serial ==
    (Called /\ ret = DECODE_OK) =>
        LET s == serial(dat)
            str == Value(output[1], 2)
        IN  /\ \A k \in 0 .. 27 : s[k] = RowBit(dat, 32 + k)
            /\ \A i \in 0 .. 7 :
                  /\ s[i] = Bit(reverse8(dat[4]), i)
                  /\ s[8 + i] = Bit(reverse8(dat[5]), i)
                  /\ s[16 + i] = Bit(reverse8(dat[6]), i)
                  /\ s[24 + i] = Bit(reverse8((dat[7] \div 16) * 16), i)
            /\ \A n \in 0 .. 15 :
                  serial(With(dat, 7, (dat[7] \div 16) * 16 + n)) = s
            /\ ~Negative(s)
            /\ LowValue(s, 0) < 2 ^ 28
            /\ output[1][2][1] = "id"
            /\ Len(str) = 7
            /\ \A j \in 1 .. 7 : str[j] = DigitOfBits(dat, 32 + 4 * (7 - j))

\* Scenario A with byte 7 = 0xFF: all button bits set, id F7B3D59
C7_Witness ==
    /\ Called /\ ret = DECODE_OK
    /\ dat = With(ScenarioA, 7, 255)
    /\ Value(output[1], 2) = <<"F", "7", "B", "3", "D", "5", "9">>

(* C8: the button index has input bit 3 at bit 3, input bit 0 at bit 2,
   input bit 1 at bit 1 and input bit 2 at bit 0 of the raw nibble (the low
   nibble of data byte 7, not reversed); the map is a bijection of 0..15, and
   the reported button is in 0..15. *)
C8_ButtonBijection ==
    (Called /\ ret = DECODE_OK) =>
        LET raw == dat[7] % 16
            button == Value(output[1], 4)
        IN  /\ output[1][4][1] = "button"
            /\ button \in 0 .. 15
            /\ Bit(button, 3) = Bit(raw, 3)
            /\ Bit(button, 2) = Bit(raw, 0)
            /\ Bit(button, 1) = Bit(raw, 1)
            /\ Bit(button, 0) = Bit(raw, 2)
            /\ \A n \in 0 .. 15 : n # raw => btn_num(n) # button
            /\ {btn_num(n) : n \in 0 .. 15} = 0 .. 15

\* raw nibble 0001 (S2 alone) is button 4, raw 0100 is button 1
C8_Witness ==
    /\ Called /\ ret = DECODE_OK
    /\ dat[7] = 1
    /\ Value(output[1], 4) = 4

(* C9: in an emitted record learn is 1 iff the low nibble of data byte 7 is
   0xF, battery_ok is 1 iff bit 7 of byte 8 is clear, repeat is 1 iff bit 6
   of byte 8 is set; the low six bits of byte 8 change no field (the record
   is that of the same row with none, each one, or all of them set). *)
C9_Flags ==
    (Called /\ ret = DECODE_OK) =>
        LET rec == output[1]
        IN  /\ Keys(rec) = output_fields
            /\ Value(rec, 5) \in {0, 1}
            /\ Value(rec, 3) \in {0, 1}
            /\ Value(rec, 6) \in {0, 1}
            /\ Value(rec, 5) = 1 <=> dat[7] % 16 = 15
            /\ Value(rec, 3) = 1 <=> Bit(dat[8], 7) = 0
            /\ Value(rec, 3) = 1 - battery_low(dat)
            /\ Value(rec, 6) = 1 <=> Bit(dat[8], 6) = 1
            /\ \A v \in {0, 1, 2, 4, 8, 16, 32, 63} :
                  data_make(With(dat, 8, (dat[8] \div 64) * 64 + v)) = rec

\* byte 8 = 0xBF: battery low, no repeat, the six low bits set
C9_Witness ==
    /\ Called /\ ret = DECODE_OK
    /\ dat[8] = 191 /\ dat[7] = 7
    /\ Value(output[1], 3) = 0
    /\ Value(output[1], 5) = 0
    /\ Value(output[1], 6) = 0

(* C10: the decoder keeps no state: two calls on the same buffer, whatever
   calls came before each, return the same code and, when OK, emit the same
   record, with the keys model, id, battery_ok, button, learn, repeat,
   encrypted in this order; two calls in a row on one buffer emit two equal
   records (no deduplication). *)
C10_Stateless ==
    /\ \A i, j \in 1 .. Len(calls) :
          calls[i].buf = calls[j].buf =>
              (calls[i].ret = calls[j].ret /\ calls[i].out = calls[j].out)
    /\ \A i \in 1 .. Len(calls) :
          calls[i].ret = DECODE_OK =>
              /\ Len(calls[i].out) = 1
              /\ Keys(calls[i].out[1]) =
                    <<"model", "id", "battery_ok", "button",
                      "learn", "repeat", "encrypted">>
    /\ \A i \in 1 .. Len(calls) - 1 :
          (calls[i].buf = calls[i + 1].buf /\ calls[i].ret = DECODE_OK) =>
              LET n == Cardinality({k \in 1 .. i + 1 : calls[k].ret = DECODE_OK})
              IN  /\ n <= Len(output)
                  /\ output[n - 1] = output[n]

\* the same buffer accepted twice in a row after a different, accepted buffer
C10_Witness ==
    /\ Len(calls) = 3
    /\ calls[1].buf # calls[2].buf
    /\ calls[2].buf = calls[3].buf
    /\ calls[1].ret = DECODE_OK
    /\ calls[3].ret = DECODE_OK
    /\ Len(output) = 3
    /\ output[2] = output[3]
    /\ output[1] # output[2]

===========================================================================
